---- MODULE Spec2Model ----
(***************************************************************************)
(* Model of the BDL MCP server (Cloudflare Workers entry point):           *)
(*   src/src/index.ts       transport: /sse channel open, /mcp calls       *)
(*   src/src/mcp-server.ts  JSON-RPC dispatcher and schema translator      *)
(*   src/src/tool-handler.ts, src/src/bdl-client.ts  the executor          *)
(*   src/src/tools.ts       the tool registry                              *)
(***************************************************************************)
EXTENDS Integers, Sequences, FiniteSets, TLC

(***************************************************************************)
(* Bounds of the model.                                                    *)
(***************************************************************************)
MaxBatch == 2
MaxSessions == 2
MaxFields == 2

(***************************************************************************)
(* JSON values.  Every value is a record with a tag t.  Undef stands for   *)
(* JavaScript undefined, which is also what reading an absent property     *)
(* gives and what JSON.stringify leaves out of an object.  Numbers are     *)
(* kept in tenths (n10) so that non-integers such as 1.5 are values too.   *)
(***************************************************************************)
Undef == [t |-> "undefined"]
JNull == [t |-> "null"]
JStr(s) == [t |-> "string", s |-> s]
JNum(n) == [t |-> "number", n10 |-> n * 10]
JTenths(n) == [t |-> "number", n10 |-> n]
JArr(xs) == [t |-> "array", items |-> xs]
JObj(f) == [t |-> "object", fields |-> f]
EmptyFields == [k \in {} |-> Undef]

\* obj[key] of JavaScript on a decoded JSON value: undefined when the value
\* is not an object or has no such property.
Get(v, key) ==
  IF v.t = "object" /\ key \in DOMAIN v.fields THEN v.fields[key] ELSE Undef

\* `key in obj` on a decoded JSON object (own properties only are asked here).
Has(v, key) == v.t = "object" /\ key \in DOMAIN v.fields

(***************************************************************************)
(* zod schema trees (src/src/tools.ts).  description is the description    *)
(* held by that node's own _def: .describe() sets it on the node it is     *)
(* called on, .optional() wraps the node and copies the description the    *)
(* node has at that moment.                                                *)
(***************************************************************************)
ZNode(kind) ==
  [kind |-> kind, description |-> Undef, inner |-> <<>>, values |-> <<>>,
   checks |-> <<>>, options |-> <<>>, shape |-> <<>>]
ZString == ZNode("ZodString")
ZNumber == ZNode("ZodNumber")
ZEnum(vals) == [ZNode("ZodEnum") EXCEPT !.values = vals]
ZUnion(opts) == [ZNode("ZodUnion") EXCEPT !.options = opts]
ZArray(z) == [ZNode("ZodArray") EXCEPT !.inner = <<z>>]
ZObject(shape) == [ZNode("ZodObject") EXCEPT !.shape = shape]
Int_(z) == [z EXCEPT !.checks = Append(@, [kind |-> "int", value |-> 0])]
Positive(z) == [z EXCEPT !.checks = Append(@, [kind |-> "min", value |-> 0])]
Max(z, m) == [z EXCEPT !.checks = Append(@, [kind |-> "max", value |-> m])]
Optional(z) == [ZNode("ZodOptional") EXCEPT !.inner = <<z>>, !.description = z.description]
Nullable(z) == [ZNode("ZodNullable") EXCEPT !.inner = <<z>>, !.description = z.description]
Describe(z, d) == [z EXCEPT !.description = JStr(d)]
Field(key, z) == [key |-> key, type |-> z]

languageSchema == Describe(Optional(ZEnum(<<"pl", "en">>)), "Response language (pl or en)")
sortOrderSchema == Describe(Optional(ZEnum(<<"Id", "-Id", "Name", "-Name">>)), "Sort order")
pageSchema == Describe(Optional(Positive(Int_(ZNumber))), "Page number")
pageSizeSchema ==
  Describe(Optional(Max(Positive(Int_(ZNumber)), 100)), "Number of results per page (max 100)")

IntField(key, d) == Field(key, Describe(Int_(ZNumber), d))
StrField(key, d) == Field(key, Describe(ZString, d))
OptIntField(key, d) == Field(key, Describe(Optional(Int_(ZNumber)), d))
OptStrField(key, d) == Field(key, Describe(Optional(ZString), d))
OptIntOrArrayField(key, d) ==
  Field(key, Describe(Optional(ZUnion(<<Int_(ZNumber), ZArray(Int_(ZNumber))>>)), d))
Tool(name, d, shape) == [name |-> name, description |-> d, inputSchema |-> ZObject(shape)]
sortF == Field("sort", sortOrderSchema)
langF == Field("lang", languageSchema)
pageF == Field("page", pageSchema)
pageSizeF == Field("pageSize", pageSizeSchema)

(***************************************************************************)
(* The tool registry, in declaration order (src/src/tools.ts).             *)
(***************************************************************************)
tools ==
  <<
  Tool("get_aggregates",
    "Get list of aggregation levels from BDL API. Aggregation levels define territorial groupings (e.g., voivodeship, county, commune).",
    <<sortF,
       langF>>),
  Tool("get_aggregate",
    "Get details of a specific aggregation level by ID.",
    <<IntField("id", "Aggregation level ID"),
       langF>>),
  Tool("get_attributes",
    "Get list of data attributes/flags from BDL API.",
    <<sortF,
       langF>>),
  Tool("get_attribute",
    "Get details of a specific attribute by ID.",
    <<IntField("id", "Attribute ID"),
       langF>>),
  Tool("get_levels",
    "Get list of territorial levels (e.g., country, voivodeship, county, commune).",
    <<sortF,
       langF>>),
  Tool("get_level",
    "Get details of a specific territorial level by ID.",
    <<IntField("id", "Level ID"),
       langF>>),
  Tool("get_measures",
    "Get list of measurement units used in BDL data.",
    <<sortF,
       langF>>),
  Tool("get_measure",
    "Get details of a specific measurement unit by ID.",
    <<IntField("id", "Measure unit ID"),
       langF>>),
  Tool("get_subjects",
    "Get list of statistical subjects/categories. Subjects are organized hierarchically.",
    <<OptStrField("parentId", "Parent subject ID to get children"),
       langF>>),
  Tool("get_subject",
    "Get details of a specific subject by ID.",
    <<StrField("id", "Subject ID (e.g., \"K1\", \"P2354\")"),
       langF>>),
  Tool("search_subjects",
    "Search subjects by name.",
    <<StrField("name", "Search term for subject name"),
       langF>>),
  Tool("get_units",
    "Get list of territorial units (administrative divisions of Poland).",
    <<OptIntField("level", "Territorial level filter"),
       OptStrField("parentId", "Parent unit ID to get children"),
       OptStrField("name", "Name filter"),
       sortF,
       pageF,
       pageSizeF,
       langF>>),
  Tool("get_unit",
    "Get details of a specific territorial unit by ID.",
    <<StrField("id", "Unit ID (TERYT code)"),
       langF>>),
  Tool("search_units",
    "Search territorial units by name.",
    <<StrField("name", "Search term for unit name"),
       OptIntField("level", "Territorial level filter"),
       pageF,
       pageSizeF,
       langF>>),
  Tool("get_localities",
    "Get list of localities (cities, towns, villages).",
    <<OptStrField("parentId", "Parent unit ID"),
       OptStrField("name", "Name filter"),
       OptIntField("year", "Year filter"),
       sortF,
       pageF,
       pageSizeF,
       langF>>),
  Tool("get_locality",
    "Get details of a specific locality by ID.",
    <<StrField("id", "Locality ID"),
       OptIntField("year", "Year"),
       langF>>),
  Tool("search_localities",
    "Search localities by name.",
    <<StrField("name", "Search term for locality name"),
       OptIntField("year", "Year filter"),
       pageF,
       pageSizeF,
       langF>>),
  Tool("get_variables",
    "Get list of statistical variables/indicators.",
    <<OptStrField("subjectId", "Filter by subject ID"),
       OptIntField("level", "Aggregation level filter"),
       OptIntField("year", "Year filter"),
       sortF,
       pageF,
       pageSizeF,
       langF>>),
  Tool("get_variable",
    "Get details of a specific variable by ID, including available years.",
    <<IntField("id", "Variable ID"),
       langF>>),
  Tool("search_variables",
    "Search statistical variables by name.",
    <<StrField("name", "Search term for variable name"),
       OptStrField("subjectId", "Filter by subject ID"),
       OptIntField("level", "Aggregation level filter"),
       OptIntField("year", "Year filter"),
       pageF,
       pageSizeF,
       langF>>),
  Tool("get_data_by_variable",
    "Get statistical data for a specific variable across territorial units.",
    <<IntField("varId", "Variable ID"),
       OptIntField("unitLevel", "Territorial level for results"),
       OptStrField("unitParentId", "Parent unit ID to filter results"),
       OptIntOrArrayField("year", "Year or array of years"),
       pageF,
       pageSizeF,
       langF>>),
  Tool("get_data_by_unit",
    "Get statistical data for a specific territorial unit.",
    <<StrField("unitId", "Unit ID (TERYT code)"),
       OptIntOrArrayField("varId", "Variable ID or array of variable IDs"),
       OptIntOrArrayField("year", "Year or array of years"),
       pageF,
       pageSizeF,
       langF>>),
  Tool("get_locality_data_by_variable",
    "Get locality-level statistical data for a specific variable.",
    <<IntField("varId", "Variable ID"),
       OptStrField("unitParentId", "Parent unit ID to filter results"),
       OptIntField("year", "Year"),
       pageF,
       pageSizeF,
       langF>>),
  Tool("get_locality_data_by_unit",
    "Get locality-level statistical data for a specific unit.",
    <<StrField("unitId", "Unit ID"),
       OptIntOrArrayField("varId", "Variable ID or array of variable IDs"),
       OptIntField("year", "Year"),
       pageF,
       pageSizeF,
       langF>>),
  Tool("get_years",
    "Get list of available years in BDL database.",
    <<langF>>),
  Tool("get_year",
    "Get details of a specific year.",
    <<IntField("id", "Year (e.g., 2023)"),
       langF>>),
  Tool("get_api_version",
    "Get BDL API version information.",
    <<>>)
  >>

ToolNames == {tools[i].name : i \in 1..Len(tools)}
ToolDef(name) == CHOOSE d \in {tools[i] : i \in 1..Len(tools)} : d.name = name

\* Property names every object literal inherits from Object.prototype: the
\* `in` operator answers true for them although the registry declares none.
ObjectPrototypeKeys ==
  {"constructor", "toString", "toLocaleString", "valueOf", "hasOwnProperty",
   "isPrototypeOf", "propertyIsEnumerable", "__proto__", "__defineGetter__",
   "__defineSetter__", "__lookupGetter__", "__lookupSetter__"}

\* `name in tools` (mcp-server.ts:248): own and inherited properties.
InTools(key) == key \in ToolNames \cup ObjectPrototypeKeys

\* String(v) as a template literal or a property key computes it.
ToStr(v) ==
  CASE v.t = "string" -> v.s
    [] v.t = "undefined" -> "undefined"
    [] v.t = "null" -> "null"
    [] v.t = "object" -> "[object Object]"

(***************************************************************************)
(* Runtime validation: inputSchema.safeParse(args).  z.object strips       *)
(* unknown keys; nothing is coerced.                                       *)
(***************************************************************************)
CheckOk(c, n10) ==
  CASE c.kind = "int" -> n10 % 10 = 0
    [] c.kind = "min" -> n10 > c.value * 10
    [] c.kind = "max" -> n10 =< c.value * 10

RECURSIVE ParseOk(_, _)
ParseOk(z, v) ==
  CASE z.kind = "ZodOptional" -> v = Undef \/ ParseOk(z.inner[1], v)
    [] z.kind = "ZodNullable" -> v = JNull \/ ParseOk(z.inner[1], v)
    [] z.kind = "ZodEnum" ->
         v.t = "string" /\ \E i \in 1..Len(z.values) : z.values[i] = v.s
    [] z.kind = "ZodString" -> v.t = "string"
    [] z.kind = "ZodNumber" ->
         v.t = "number" /\ \A i \in 1..Len(z.checks) : CheckOk(z.checks[i], v.n10)
    [] z.kind = "ZodUnion" -> \E i \in 1..Len(z.options) : ParseOk(z.options[i], v)
    [] z.kind = "ZodArray" ->
         v.t = "array" /\ \A i \in 1..Len(v.items) : ParseOk(z.inner[1], v.items[i])
    [] z.kind = "ZodObject" ->
         v.t = "object" /\
         \A i \in 1..Len(z.shape) : ParseOk(z.shape[i].type, Get(v, z.shape[i].key))

ShapeKeys(z) == {z.shape[i].key : i \in 1..Len(z.shape)}

\* parseResult.data: the declared keys the caller supplied, values unchanged.
ParseData(z, v) ==
  JObj([k \in (DOMAIN v.fields) \cap ShapeKeys(z) |-> v.fields[k]])

\* The paths of parseResult.error.issues: the fields that fail, in shape
\* order; the empty path when the input is not an object at all.
RECURSIVE IssuePaths(_, _, _)
IssuePaths(z, v, i) ==
  IF v.t # "object" THEN <<"">>
  ELSE IF i > Len(z.shape) THEN <<>>
  ELSE (IF ParseOk(z.shape[i].type, Get(v, z.shape[i].key)) THEN <<>>
        ELSE <<z.shape[i].key>>) \o IssuePaths(z, v, i + 1)

safeParse(z, v) ==
  IF ParseOk(z, v)
  THEN [success |-> TRUE, data |-> ParseData(z, v), issues |-> <<>>]
  ELSE [success |-> FALSE, data |-> Undef, issues |-> IssuePaths(z, v, 1)]


(***************************************************************************)
(* Schema translator (mcp-server.ts:72-165).  The documents are the        *)
(* in-memory objects: a key whose value is Undef is a key JSON.stringify   *)
(* leaves out.                                                             *)
(***************************************************************************)
JBool(b) == [t |-> "boolean", b |-> b]

isOptionalOfInner(z) ==
  IF z.kind \in {"ZodOptional", "ZodNullable"} THEN ParseOk(z.inner[1], Undef)
  ELSE ParseOk(z, Undef)
\* zodType.isOptional(): whether undefined passes validation.
isOptional(z) == ParseOk(z, Undef)

RECURSIVE zodTypeToJsonSchema(_)
RECURSIVE zodToJsonSchema(_)
RECURSIVE RequiredKeys(_, _)

RequiredKeys(shape, i) ==
  IF i > Len(shape) THEN <<>>
  ELSE (IF isOptional(shape[i].type) THEN <<>> ELSE <<JStr(shape[i].key)>>)
       \o RequiredKeys(shape, i + 1)

zodToJsonSchema(schema) ==
  LET shape == schema.shape
      properties ==
        JObj([k \in ShapeKeys(schema) |->
               zodTypeToJsonSchema(
                 (CHOOSE f \in {shape[i] : i \in 1..Len(shape)} : f.key = k).type)])
      required == RequiredKeys(shape, 1)
  IN  IF Len(required) > 0
      THEN JObj([type |-> JStr("object"), properties |-> properties,
                 required |-> JArr(required)])
      ELSE JObj([type |-> JStr("object"), properties |-> properties])

zodTypeToJsonSchema(z) ==
  CASE z.kind = "ZodOptional" -> zodTypeToJsonSchema(z.inner[1])
    [] z.kind = "ZodNullable" -> zodTypeToJsonSchema(z.inner[1])
    [] z.kind = "ZodUnion" ->
         JObj([oneOf |-> JArr([i \in 1..Len(z.options) |->
                                 zodTypeToJsonSchema(z.options[i])])])
    [] z.kind = "ZodEnum" ->
         JObj([type |-> JStr("string"),
               enum |-> JArr([i \in 1..Len(z.values) |-> JStr(z.values[i])]),
               description |-> z.description])
    [] z.kind = "ZodString" ->
         JObj([type |-> JStr("string"), description |-> z.description])
    [] z.kind = "ZodNumber" ->
         JObj([type |-> IF \E i \in 1..Len(z.checks) : z.checks[i].kind = "int"
                        THEN JStr("integer") ELSE JStr("number"),
               description |-> z.description])
    [] z.kind = "ZodBoolean" ->
         JObj([type |-> JStr("boolean"), description |-> z.description])
    [] z.kind = "ZodArray" ->
         JObj([type |-> JStr("array"), items |-> zodTypeToJsonSchema(z.inner[1]),
               description |-> z.description])
    [] z.kind = "ZodObject" -> zodToJsonSchema(z)
    [] OTHER -> JObj([type |-> JStr("string")])

(***************************************************************************)
(* Dispatcher (mcp-server.ts:167-275) and executor (tool-handler.ts).      *)
(***************************************************************************)
SERVER_INFO == JObj([name |-> JStr("bdl-mcp-server"), version |-> JStr("1.0.0")])

\* A template literal: the literal prefix followed by the interpolated parts.
JText(prefix, parts) == [t |-> "string", s |-> prefix, parts |-> parts]

ToolResult(text, isError) ==
  IF isError
  THEN JObj([content |-> JArr(<<JObj([type |-> JStr("text"), text |-> text])>>),
             isError |-> JBool(TRUE)])
  ELSE JObj([content |-> JArr(<<JObj([type |-> JStr("text"), text |-> text])>>)])

handleInitializeOtherVersion ==
  JObj([protocolVersion |-> JStr("2025-03-26"),
        capabilities |-> JObj([tools |-> JObj(EmptyFields)]),
        serverInfo |-> SERVER_INFO])
handleInitialize ==
  JObj([protocolVersion |-> JStr("2024-11-05"),
        capabilities |-> JObj([tools |-> JObj(EmptyFields)]),
        serverInfo |-> SERVER_INFO])

handleListToolsReversed ==
  JObj([tools |-> JArr([i \in 1..Len(tools) |->
          LET d == tools[Len(tools) + 1 - i]
          IN  JObj([name |-> JStr(d.name),
                    description |-> JStr(d.description),
                    inputSchema |-> zodToJsonSchema(d.inputSchema)])])])
handleListTools ==
  JObj([tools |-> JArr([i \in 1..Len(tools) |->
          JObj([name |-> JStr(tools[i].name),
                description |-> JStr(tools[i].description),
                inputSchema |-> zodToJsonSchema(tools[i].inputSchema)])])])

\* What a step of the dispatcher comes to before any I/O: it returns a
\* value, throws, or calls the executor (which then awaits the data source).
Return(v) == [kind |-> "return", value |-> v, message |-> <<>>, tool |-> "", args |-> Undef]
Throw(m) == [kind |-> "throw", value |-> Undef, message |-> m, tool |-> "", args |-> Undef]
Execute(name, data) ==
  [kind |-> "execute", value |-> Undef, message |-> <<>>, tool |-> name, args |-> data]

handleCallToolNoValidation(params) ==
  IF params.t \in {"undefined", "null"}
  THEN Throw(<<"TypeError: Cannot destructure property 'name'">>)
  ELSE
    LET name == Get(params, "name")
        args == IF Get(params, "arguments") = Undef THEN JObj(EmptyFields)
                ELSE Get(params, "arguments")
    IN  IF ~InTools(ToStr(name))
        THEN Return(ToolResult(JText("Unknown tool: ", <<ToStr(name)>>), TRUE))
        ELSE IF ToStr(name) \notin ToolNames
        THEN Throw(<<"TypeError: Cannot read properties of undefined (reading 'safeParse')">>)
        ELSE Execute(ToStr(name), args)
handleCallToolRawArgs(params) ==
  IF params.t \in {"undefined", "null"}
  THEN Throw(<<"TypeError: Cannot destructure property 'name'">>)
  ELSE
    LET name == Get(params, "name")
        args == IF Get(params, "arguments") = Undef THEN JObj(EmptyFields)
                ELSE Get(params, "arguments")
    IN  IF ~InTools(ToStr(name))
        THEN Return(ToolResult(JText("Unknown tool: ", <<ToStr(name)>>), TRUE))
        ELSE IF ToStr(name) \notin ToolNames
        THEN Throw(<<"TypeError: Cannot read properties of undefined (reading 'safeParse')">>)
        ELSE
          LET parseResult == safeParse(ToolDef(ToStr(name)).inputSchema, args)
          IN  IF ~parseResult.success
              THEN Return(ToolResult(JText("Invalid arguments: ", parseResult.issues), TRUE))
              ELSE Execute(ToStr(name), args)
handleCallTool(params) ==
  IF params.t \in {"undefined", "null"}
  THEN Throw(<<"TypeError: Cannot destructure property 'name'">>)
  ELSE
    LET name == Get(params, "name")
        args == IF Get(params, "arguments") = Undef THEN JObj(EmptyFields)
                ELSE Get(params, "arguments")
    IN  IF ~InTools(ToStr(name))
        THEN Return(ToolResult(JText("Unknown tool: ", <<ToStr(name)>>), TRUE))
        ELSE IF ToStr(name) \notin ToolNames
        THEN Throw(<<"TypeError: Cannot read properties of undefined (reading 'safeParse')">>)
        ELSE
          LET parseResult == safeParse(ToolDef(ToStr(name)).inputSchema, args)
          IN  IF ~parseResult.success
              THEN Return(ToolResult(JText("Invalid arguments: ", parseResult.issues), TRUE))
              ELSE Execute(ToStr(name), parseResult.data)

processMethod(method, params) ==
  CASE method = JStr("initialize") -> Return(handleInitialize)
    [] method = JStr("tools/list") -> Return(handleListTools)
    [] method = JStr("tools/call") -> handleCallTool(params)
    [] method = JStr("ping") -> Return(JObj(EmptyFields))
    [] method = JStr("notifications/initialized") -> Return(JObj(EmptyFields))
    [] OTHER -> Throw(<<"Unknown method: ", ToStr(method)>>)


\* BDLClient.fetch (bdl-client.ts:63-75): what the data source does.
FetchOutcomes == {"ok", "unreachable", "status500"}

\* What BDLClient.fetch comes to: the decoded data, or the Error it throws.
fetch(o) ==
  CASE o = "ok" -> [ok |-> TRUE, message |-> <<>>]
    [] o = "unreachable" -> [ok |-> FALSE, message |-> <<"fetch failed">>]
    [] o = "status500" ->
         [ok |-> FALSE, message |-> <<"BDL API Error (", "500", "): ", "errorText">>]

\* ToolHandler.execute (tool-handler.ts:22-41) once the data source answered.
executeNoCatch(o) ==
  IF fetch(o).ok
  THEN Return(ToolResult(JText("", <<"JSON.stringify(result, null, 2)">>), FALSE))
  ELSE Throw(fetch(o).message)
execute(o) ==
  IF fetch(o).ok
  THEN Return(ToolResult(JText("", <<"JSON.stringify(result, null, 2)">>), FALSE))
  ELSE Return(ToolResult(JText("Error: ", fetch(o).message), TRUE))

Response(id, result, error) ==
  [jsonrpc |-> "2.0", id |-> id, result |-> result, error |-> error]

RpcError(code, message) == JObj([code |-> JNum(code), message |-> message])

\* MCPServer.handleRequest (mcp-server.ts:181-200) for a processMethod that
\* came to `settled` (a Return or a Throw).
handleRequestBoth(request, settled) ==
  Response(Get(request, "id"), settled.value,
           RpcError(-32603, JText("", settled.message)))
handleRequestDropsId(request, settled) ==
  IF settled.kind = "return"
  THEN Response(Get(request, "id"), settled.value, Undef)
  ELSE Response(JNull, Undef, RpcError(-32603, JText("", settled.message)))
handleRequest(request, settled) ==
  IF settled.kind = "return"
  THEN Response(Get(request, "id"), settled.value, Undef)
  ELSE Response(Get(request, "id"), Undef,
                RpcError(-32603, JText("", settled.message)))

(***************************************************************************)
(* Transport (src/src/index.ts).                                           *)
(***************************************************************************)
isJSONRPCRequestNoTag(data) ==
  /\ data.t \in {"object", "array"}
  /\ Has(data, "method")
isJSONRPCRequest(data) ==
  /\ data.t \in {"object", "array"}
  /\ Has(data, "jsonrpc")
  /\ Get(data, "jsonrpc") = JStr("2.0")
  /\ Has(data, "method")

InvalidRequest == Response(JNull, Undef, RpcError(-32600, JStr("Invalid Request")))
ParseErrorAsInvalid(errorMessage) ==
  Response(JNull, Undef, RpcError(-32600, JText("Parse error: ", <<errorMessage>>)))
ParseError(errorMessage) ==
  Response(JNull, Undef, RpcError(-32700, JText("Parse error: ", <<errorMessage>>)))

createSSEMessage(event, data) == [event |-> event, data |-> data]
createSSEEndpoint == [event |-> "endpoint", data |-> JStr("/mcp")]


(***************************************************************************)
(* Inputs.  A decoded member is any JSON value; an object lists exactly    *)
(* the properties it carries.                                              *)
(***************************************************************************)
Obj(f) == JObj([k \in {x \in DOMAIN f : f[x] # Undef} |-> f[k]])
Req(id, method, params) ==
  Obj([jsonrpc |-> JStr("2.0"), id |-> id, method |-> method, params |-> params])
Call(id, name, arguments) ==
  Req(id, JStr("tools/call"), Obj([name |-> name, arguments |-> arguments]))

Ids == {Undef, JNum(1), JStr("a")}

CallParams ==
  { Undef, JNull, JObj(EmptyFields),
    Obj([name |-> JStr("no_such_tool")]),
    Obj([name |-> JStr("toString")]),
    Obj([name |-> JStr("get_year")]),
    Obj([name |-> JStr("get_year"), arguments |-> JNull]),
    Obj([name |-> JStr("get_year"), arguments |-> JObj([id |-> JNum(2023)])]),
    Obj([name |-> JStr("get_year"), arguments |-> JObj([id |-> JStr("abc")])]),
    Obj([name |-> JStr("get_year"), arguments |-> JObj([id |-> JTenths(15)])]),
    Obj([name |-> JStr("get_year"),
         arguments |-> JObj([id |-> JNum(2023), lang |-> JStr("de")])]),
    Obj([name |-> JStr("get_api_version"), arguments |-> JObj([extra |-> JNum(1)])]),
    Obj([name |-> JStr("search_units"),
         arguments |-> JObj([name |-> JStr("x"), pageSize |-> JNum(101)])]),
    Obj([name |-> JStr("get_data_by_variable"),
         arguments |-> JObj([varId |-> JNum(1),
                             year |-> JArr(<<JNum(2020), JNum(2021)>>)])]) }

ValidRequests ==
  {Req(id, JStr(m), Undef) : id \in Ids, m \in {"ping", "no/such"}}
  \cup {Req(JNum(1), m, Undef) :
          m \in {JStr("initialize"), JStr("notifications/initialized"),
                  JStr("tools/list"), JNull}}
  \cup {Req(JNum(1), JStr("tools/call"), p) : p \in CallParams}
  \cup {Call(id, JStr("get_year"), JObj([id |-> JNum(2023)])) : id \in Ids}

InvalidMembers ==
  { JNum(5), JStr("ping"), JNull, JArr(<<>>), JObj(EmptyFields),
    Obj([id |-> JNum(7), method |-> JStr("ping")]),
    Obj([jsonrpc |-> JStr("1.0"), id |-> JNum(7), method |-> JStr("ping")]),
    Obj([jsonrpc |-> JStr("2.0"), id |-> JStr("b")]) }

\* The members batches are drawn from: one of each way a member ends.
BatchMembers ==
  { Req(JNum(1), JStr("ping"), Undef),
    Req(JStr("a"), JStr("no/such"), Undef),
    Call(JNum(2), JStr("no_such_tool"), Undef),
    Call(JNum(3), JStr("get_year"), JObj([id |-> JNum(2023)])),
    JNum(5) }

Undecodable == [t |-> "undecodable"]

RECURSIVE SeqsUpTo(_, _)
SeqsUpTo(S, n) ==
  IF n = 0 THEN {<<>>}
  ELSE LET shorter == SeqsUpTo(S, n - 1)
       IN  shorter \cup {Append(q, x) : q \in {r \in shorter : Len(r) = n - 1}, x \in S}

Bodies ==
  {Undecodable} \cup ValidRequests \cup (InvalidMembers \ {JArr(<<>>)})
  \cup {JArr(q) : q \in SeqsUpTo(BatchMembers, MaxBatch)}


(***************************************************************************)
(* State.                                                                  *)
(***************************************************************************)
Tokens == 1..MaxSessions
NoSession == 0
Pending == [t |-> "pending"]
NoReply == [status |-> 0, body |-> Undef]

VARIABLES
  sseConnections, \* index.ts:20  token -> the writer registered under it
  ssePc,          \* per token: where the handleSSE call that made it stands
  writer,         \* per token: state of the writable side of its stream
  channel,        \* per token: the events written whose write() is still pending
  dropped,        \* per token: the client of the GET connection went away
  abortPending,   \* per token: abort raised, listener not yet run
  closes,         \* per token: number of writer.close() calls
  callPc,         \* where the handleMCP call in progress stands
  body,           \* its decoded body (Undecodable when request.json() throws)
  header,         \* its Mcp-Session-Id header (NoSession when absent)
  pm,             \* per member: what processMethod came to before any I/O
  outcome,        \* per member: how its call of the data source ended
  results,        \* per member: the slot Promise.all / await fills
  settled,        \* number of member tasks settled so far
  dispatched,     \* members handed to MCPServer.handleRequest
  executorLog,    \* ToolHandler.execute invocations of this call
  pushed,         \* events this call wrote to a channel
  pushState,      \* how the write of that event stands
  reply,          \* the HTTP reply of this call
  schema,         \* mcp-server.ts:72  the zod object handed to zodToJsonSchema
  document        \* mcp-server.ts:95  the document zodToJsonSchema returned

sseVars == <<sseConnections, ssePc, writer, channel, dropped, abortPending, closes>>
callVars == <<callPc, body, header, pm, outcome, results, settled, dispatched,
              executorLog, pushed, pushState, reply>>
translatorVars == <<schema, document>>
vars == <<sseVars, callVars, translatorVars>>

\* The worker after module load: no session, no call in progress.
InitServer ==
  /\ sseConnections = [t \in {} |-> 0]
  /\ ssePc = [t \in Tokens |-> "none"]
  /\ writer = [t \in Tokens |-> "none"]
  /\ channel = [t \in Tokens |-> <<>>]
  /\ dropped = [t \in Tokens |-> FALSE]
  /\ abortPending = [t \in Tokens |-> FALSE]
  /\ closes = [t \in Tokens |-> 0]
  /\ callPc = "idle"
  /\ body = Undef
  /\ header = NoSession
  /\ pm = <<>>
  /\ outcome = <<>>
  /\ results = <<>>
  /\ settled = 0
  /\ dispatched = {}
  /\ executorLog = <<>>
  /\ pushed = <<>>
  /\ pushState = "none"
  /\ reply = NoReply

Init ==
  /\ InitServer
  /\ schema = Undef
  /\ document = Undef

(***************************************************************************)
(* GET /sse: handleSSE (index.ts:111-148).                                 *)
(***************************************************************************)
\* generateSessionId (index.ts:49-51): crypto.randomUUID() gives a token no
\* earlier call gave; tokens are numbered in the order they are given out.
generateSessionId == CHOOSE t \in 1..(MaxSessions + 1) : \A u \in Tokens : u < t <=> ssePc[u] # "none"

\* index.ts:119-131: the token is registered, the endpoint event is handed
\* to the writer and the handler suspends on that write.
SSEOpen(t) ==
  /\ t = generateSessionId
  /\ sseConnections' = [k \in DOMAIN sseConnections \cup {t} |->
                          IF k = t THEN t ELSE sseConnections[k]]
  /\ ssePc' = [ssePc EXCEPT ![t] = "awaitWrite"]
  /\ writer' = [writer EXCEPT ![t] = "writable"]
  /\ channel' = [channel EXCEPT ![t] = <<createSSEEndpoint>>]
  /\ UNCHANGED <<dropped, abortPending, closes, callVars>>
  /\ UNCHANGED translatorVars

\* index.ts:131-147: the stream took the endpoint event; the abort listener
\* is added and the streaming response returned.  A signal that aborted
\* before the listener was added never calls it.
SSEReturn(t) ==
  /\ ssePc[t] = "awaitWrite"
  /\ writer[t] = "writable"
  /\ channel[t] # <<>> /\ Head(channel[t]) = createSSEEndpoint
  /\ channel' = [channel EXCEPT ![t] = Tail(@)]
  /\ ssePc' = [ssePc EXCEPT ![t] = "streaming"]
  /\ UNCHANGED <<sseConnections, writer, dropped, abortPending, closes, callVars>>
  /\ UNCHANGED translatorVars

\* The client of the GET connection goes away: request.signal aborts.
ClientDisconnect(t) ==
  /\ ssePc[t] \in {"awaitWrite", "streaming"}
  /\ ~dropped[t]
  /\ dropped' = [dropped EXCEPT ![t] = TRUE]
  /\ abortPending' = [abortPending EXCEPT ![t] = (ssePc[t] = "streaming")]
  /\ UNCHANGED <<sseConnections, ssePc, writer, channel, closes, callVars>>
  /\ UNCHANGED translatorVars

\* The runtime cancels the response body of a connection that went away:
\* the writable side of the stream is errored; its pending writes reject.
StreamCancel(t) ==
  /\ dropped[t]
  /\ ssePc[t] = "streaming"
  /\ writer[t] = "writable"
  /\ writer' = [writer EXCEPT ![t] = "errored"]
  /\ UNCHANGED <<sseConnections, ssePc, channel, dropped, abortPending, closes, callVars>>
  /\ UNCHANGED translatorVars

AbortListenerClearsTable(t) ==
  /\ abortPending[t]
  /\ abortPending' = [abortPending EXCEPT ![t] = FALSE]
  /\ sseConnections' = [k \in {} |-> 0]
  /\ closes' = [closes EXCEPT ![t] = @ + 1]
  /\ writer' = [writer EXCEPT ![t] = IF @ = "writable" THEN "closed" ELSE @]
  /\ UNCHANGED <<ssePc, channel, dropped, callVars>>
  /\ UNCHANGED translatorVars
\* index.ts:134-137: the abort listener.
AbortListener(t) ==
  /\ abortPending[t]
  /\ abortPending' = [abortPending EXCEPT ![t] = FALSE]
  /\ sseConnections' = [k \in DOMAIN sseConnections \ {t} |-> sseConnections[k]]
  /\ closes' = [closes EXCEPT ![t] = @ + 1]
  /\ writer' = [writer EXCEPT ![t] = IF @ = "writable" THEN "closed" ELSE @]
  /\ UNCHANGED <<ssePc, channel, dropped, callVars>>
  /\ UNCHANGED translatorVars


(***************************************************************************)
(* POST /mcp: handleMCP (index.ts:151-241).                                *)
(***************************************************************************)
Invalid == [kind |-> "invalid", value |-> Undef, message |-> <<>>, tool |-> "", args |-> Undef]

\* index.ts:165-177: the task of one member, up to its first suspension.
StartTask(member) ==
  IF isJSONRPCRequest(member)
  THEN processMethod(Get(member, "method"), Get(member, "params"))
  ELSE Invalid

\* What the task of a member resolves to, given how its data-source call
\* (if it made one) ended.
TaskResponse(member, p, o) ==
  IF p.kind = "invalid" THEN InvalidRequest
  ELSE handleRequest(member, IF p.kind = "execute" THEN execute(o) ELSE p)

\* Promise.all (index.ts:164): the slot that the task of member i fills when
\* it is the k-th task to settle.
PromiseAllIndexByCompletion(i, k) == k
PromiseAllIndex(i, k) == i

\* Number of promise hops a task that needs no I/O takes to settle: an
\* invalid member settles at once, tools/call goes through one more async
\* function than the other methods.
Depth(member) ==
  IF ~isJSONRPCRequest(member) THEN 0
  ELSE IF Get(member, "method") = JStr("tools/call") THEN 2 ELSE 1

RECURSIVE IndicesAt(_, _, _)
IndicesAt(members, d, i) ==
  IF i > Len(members) THEN <<>>
  ELSE (IF Depth(members[i]) = d /\ StartTask(members[i]).kind # "execute"
        THEN <<i>> ELSE <<>>) \o IndicesAt(members, d, i + 1)

\* The order in which the tasks that need no I/O settle.
SyncOrder(members) ==
  IndicesAt(members, 0, 1) \o IndicesAt(members, 1, 1) \o IndicesAt(members, 2, 1)

RECURSIVE SettleAllAbortOnFailure(_, _, _, _)
SettleAllAbortOnFailure(res, n, order, members) ==
  IF order = <<>> THEN res
  ELSE LET i == Head(order)
           r == TaskResponse(members[i], StartTask(members[i]), "none")
       IN  IF r.error # Undef THEN [res EXCEPT ![i] = r]
           ELSE SettleAllAbortOnFailure([res EXCEPT ![i] = r], n + 1, Tail(order), members)
RECURSIVE SettleAll(_, _, _, _)
SettleAll(res, n, order, members) ==
  IF order = <<>> THEN res
  ELSE LET i == Head(order)
       IN  SettleAll([res EXCEPT ![PromiseAllIndex(i, n + 1)] =
                         TaskResponse(members[i], StartTask(members[i]), "none")],
                     n + 1, Tail(order), members)

RECURSIVE ExecutorCalls(_, _)
ExecutorCalls(members, i) ==
  IF i > Len(members) THEN <<>>
  ELSE (IF StartTask(members[i]).kind = "execute"
        THEN <<[member |-> i, tool |-> StartTask(members[i]).tool,
                args |-> StartTask(members[i]).args]>>
        ELSE <<>>) \o ExecutorCalls(members, i + 1)

\* The tasks of `members` are started, in order, and run to their first
\* suspension; those that need no I/O settle before any I/O completes.
StartTasks(members) ==
  /\ pm' = [i \in 1..Len(members) |-> StartTask(members[i])]
  /\ outcome' = [i \in 1..Len(members) |-> "none"]
  /\ results' = SettleAll([i \in 1..Len(members) |-> Pending], 0,
                          SyncOrder(members), members)
  /\ settled' = Len(SyncOrder(members))
  /\ dispatched' = {i \in 1..Len(members) : isJSONRPCRequest(members[i])}
  /\ executorLog' = ExecutorCalls(members, 1)

CanReceive == callPc = "idle"

\* index.ts:160,224-239: request.json() throws.
ReceiveUndecodable(h) ==
  /\ CanReceive
  /\ body' = Undecodable /\ header' = h 
  /\ pm' = <<>> /\ outcome' = <<>> /\ results' = <<>> /\ settled' = 0
  /\ dispatched' = {} /\ executorLog' = <<>> /\ pushed' = <<>> /\ pushState' = "none"
  /\ reply' = [status |-> 400, body |-> ParseError("Unexpected token")]
  /\ callPc' = "replied"
  /\ UNCHANGED sseVars
  /\ UNCHANGED translatorVars

\* index.ts:163-178: a batch; every member's task is started.
ReceiveBatch(b, h) ==
  /\ CanReceive
  /\ b.t = "array"
  /\ body' = b /\ header' = h 
  /\ StartTasks(b.items)
  /\ pushed' = <<>> /\ pushState' = "none" /\ reply' = NoReply
  /\ callPc' = "batch"
  /\ UNCHANGED sseVars
  /\ UNCHANGED translatorVars

\* index.ts:189-193: a single valid envelope.
ReceiveSingle(b, h) ==
  /\ CanReceive
  /\ b.t # "array" /\ b # Undecodable
  /\ isJSONRPCRequest(b)
  /\ body' = b /\ header' = h 
  /\ StartTasks(<<b>>)
  /\ pushed' = <<>> /\ pushState' = "none" /\ reply' = NoReply
  /\ callPc' = "single"
  /\ UNCHANGED sseVars
  /\ UNCHANGED translatorVars

\* index.ts:210-223: a single body that is not a valid envelope.
ReceiveInvalid(b, h) ==
  /\ CanReceive
  /\ b.t # "array" /\ b # Undecodable
  /\ ~isJSONRPCRequest(b)
  /\ body' = b /\ header' = h 
  /\ pm' = <<>> /\ outcome' = <<>> /\ results' = <<>> /\ settled' = 0
  /\ dispatched' = {} /\ executorLog' = <<>> /\ pushed' = <<>> /\ pushState' = "none"
  /\ reply' = [status |-> 400, body |-> InvalidRequest]
  /\ callPc' = "replied"
  /\ UNCHANGED sseVars
  /\ UNCHANGED translatorVars

\* bdl-client.ts:63-75 and tool-handler.ts:22-41: the data source answers
\* member i's call; the task settles.
FetchCompletes(i, o) ==
  /\ callPc \in {"batch", "single"}
  /\ i \in DOMAIN pm
  /\ pm[i].kind = "execute"
  /\ outcome[i] = "none"
  /\ outcome' = [outcome EXCEPT ![i] = o]
  /\ results' = [results EXCEPT ![PromiseAllIndex(i, settled + 1)] =
                   TaskResponse(IF callPc = "batch" THEN body.items[i] ELSE body, pm[i], o)]
  /\ settled' = settled + 1
  /\ UNCHANGED <<sseVars, callPc, body, header, pm, dispatched, executorLog,
                 pushed, pushState, reply>>
  /\ UNCHANGED translatorVars

\* index.ts:180-185: all tasks settled, the array is the reply.
BatchReply ==
  /\ callPc = "batch"
  /\ settled = Len(body.items)
  /\ reply' = [status |-> 200, body |-> JArr(results)]
  /\ callPc' = "replied"
  /\ UNCHANGED <<sseVars, body, header, pm, outcome, results, settled, dispatched,
                 executorLog, pushed, pushState>>
  /\ UNCHANGED translatorVars

IsSSESession == header # NoSession /\ header \in DOMAIN sseConnections

\* index.ts:196-199: the response is written to the session's writer and the
\* handler suspends on that write.
SinglePush ==
  /\ callPc = "single" /\ settled = 1
  /\ IsSSESession
  /\ LET w == sseConnections[header]
         ev == createSSEMessage("message", results[1])
     IN  /\ writer[w] = "writable"
         /\ channel' = [channel EXCEPT ![w] = Append(@, ev)]
         /\ pushed' = Append(pushed, [token |-> header, writer |-> w, event |-> ev])
  /\ pushState' = "pending"
  /\ callPc' = "push"
  /\ UNCHANGED <<sseConnections, ssePc, writer, dropped, abortPending, closes,
                 body, header, pm, outcome, results, settled, dispatched,
                 executorLog, reply>>
  /\ UNCHANGED translatorVars

\* index.ts:199,224-239: write() on a writer that is errored or closed
\* rejects; the rejection lands in the handler's catch.
SinglePushFails ==
  /\ callPc = "single" /\ settled = 1
  /\ IsSSESession
  /\ writer[sseConnections[header]] # "writable"
  /\ pushState' = "rejected"
  /\ reply' = [status |-> 400, body |-> ParseError("write rejected")]
  /\ callPc' = "replied"
  /\ UNCHANGED <<sseVars, body, header, pm, outcome, results, settled, dispatched,
                 executorLog, pushed>>
  /\ UNCHANGED translatorVars

SingleReplyUnknownTokenIsError ==
  /\ callPc = "single" /\ settled = 1
  /\ ~IsSSESession
  /\ reply' = IF header = NoSession THEN [status |-> 200, body |-> results[1]]
              ELSE [status |-> 400, body |-> ParseError("unknown session")]
  /\ callPc' = "replied"
  /\ UNCHANGED <<sseVars, body, header, pm, outcome, results, settled, dispatched,
                 executorLog, pushed, pushState>>
  /\ UNCHANGED translatorVars
\* index.ts:196,202-207: no registered session, the response is the reply.
SingleReply ==
  /\ callPc = "single" /\ settled = 1
  /\ ~IsSSESession
  /\ reply' = [status |-> 200, body |-> results[1]]
  /\ callPc' = "replied"
  /\ UNCHANGED <<sseVars, body, header, pm, outcome, results, settled, dispatched,
                 executorLog, pushed, pushState>>
  /\ UNCHANGED translatorVars

\* index.ts:199-207: the consumer of the stream took the pushed event.
PushResolves ==
  /\ callPc = "push"
  /\ LET w == pushed[1].writer
     IN  /\ writer[w] = "writable" /\ ssePc[w] = "streaming"
         /\ Head(channel[w]) = pushed[1].event
         /\ channel' = [channel EXCEPT ![w] = Tail(@)]
  /\ pushState' = "resolved"
  /\ reply' = [status |-> 200, body |-> results[1]]
  /\ callPc' = "replied"
  /\ UNCHANGED <<sseConnections, ssePc, writer, dropped, abortPending, closes, body, header, pm, outcome, results, settled, dispatched,
                 executorLog, pushed>>
  /\ UNCHANGED translatorVars

\* index.ts:199,224-239: the stream was errored or closed under the pending
\* write; the rejection lands in the handler's catch.
PushRejects ==
  /\ callPc = "push"
  /\ writer[pushed[1].writer] # "writable"
  /\ channel' = [channel EXCEPT ![pushed[1].writer] = <<>>]
  /\ pushState' = "rejected"
  /\ reply' = [status |-> 400, body |-> ParseError("write rejected")]
  /\ callPc' = "replied"
  /\ UNCHANGED <<sseConnections, ssePc, writer, dropped, abortPending, closes, body, header, pm, outcome, results, settled, dispatched,
                 executorLog, pushed>>
  /\ UNCHANGED translatorVars

\* index.ts:180,202,210,226: the reply is returned; the worker takes the
\* next call.
CallDone ==
  /\ callPc = "replied"
  /\ callPc' = "idle"
  /\ body' = Undef /\ header' = NoSession
  /\ pm' = <<>> /\ outcome' = <<>> /\ results' = <<>> /\ settled' = 0
  /\ dispatched' = {} /\ executorLog' = <<>> /\ pushed' = <<>> /\ pushState' = "none"
  /\ reply' = NoReply
  /\ UNCHANGED sseVars
  /\ UNCHANGED translatorVars

Headers == {NoSession} \cup Tokens

Next ==
  \/ \E t \in Tokens : SSEOpen(t)
  \/ \E t \in Tokens : SSEReturn(t)
  \/ \E t \in Tokens : ClientDisconnect(t)
  \/ \E t \in Tokens : StreamCancel(t)
  \/ \E t \in Tokens : AbortListener(t)
  \/ \E h \in Headers : ReceiveUndecodable(h)
  \/ \E b \in Bodies, h \in Headers : ReceiveBatch(b, h)
  \/ \E b \in Bodies, h \in Headers : ReceiveSingle(b, h)
  \/ \E b \in Bodies, h \in Headers : ReceiveInvalid(b, h)
  \/ \E i \in 1..(MaxBatch + 1), o \in FetchOutcomes : FetchCompletes(i, o)
  \/ BatchReply
  \/ SinglePush
  \/ SinglePushFails
  \/ SingleReply
  \/ PushResolves
  \/ PushRejects
  \/ CallDone

Spec == Init /\ [][Next]_vars

\* The scheduling the runtime gives: the event loop runs every continuation
\* and listener that is ready (a dispatched abort event reaches its
\* listener, a handler whose awaited promise settled resumes, a reply is
\* returned), and the caller reads the stream it has been handed
\* (PushResolves asks for ssePc = "streaming", the response being returned).
\* SSEReturn gets no fairness: the write awaited at index.ts:131 completes
\* only when the readable side takes the chunk, and the readable side is
\* handed to the caller at index.ts:139, after that await.
FairSpec ==
  /\ Spec
  /\ \A t \in Tokens : WF_vars(AbortListener(t))
  /\ WF_vars(BatchReply)
  /\ WF_vars(SinglePush)
  /\ WF_vars(SinglePushFails)
  /\ WF_vars(SingleReply)
  /\ WF_vars(PushResolves)
  /\ WF_vars(PushRejects)
  /\ WF_vars(CallDone)

\* The scheduling when the consumer of a channel may stop reading: every
\* listener and continuation that is ready runs and every data-source call
\* returns (FetchCompletes), while nothing makes the reader of a channel
\* take an event, so PushResolves and SSEReturn get no fairness.
StalledReaderSpec ==
  /\ Spec
  /\ \A t \in Tokens : WF_vars(AbortListener(t))
  /\ WF_vars(\E i \in 1..(MaxBatch + 1), o \in FetchOutcomes : FetchCompletes(i, o))
  /\ WF_vars(BatchReply)
  /\ WF_vars(SinglePush)
  /\ WF_vars(SinglePushFails)
  /\ WF_vars(SingleReply)
  /\ WF_vars(PushRejects)
  /\ WF_vars(CallDone)

(***************************************************************************)
(* The schema translator on its own (mcp-server.ts:72-165): zodToJsonSchema *)
(* applied to the argument schemas of the registry and to objects of up to *)
(* MaxFields fields drawn from FieldTypes, nested objects among them.      *)
(***************************************************************************)
FieldKeys == <<"a", "b", "c", "d">>
NestedShape == <<Field("x", ZString), Field("y", Optional(ZString))>>
FieldTypes ==
  {ZString,
   Optional(ZString),
   Describe(Optional(Int_(ZNumber)), "n"),
   Nullable(ZString),
   ZArray(ZString),
   ZObject(NestedShape),
   Optional(ZObject(NestedShape)),
   Optional(ZObject(<<Field("y", Optional(ZString))>>))}
SampleSchemas ==
  {ZObject([i \in 1..Len(q) |-> Field(FieldKeys[i], q[i])]) :
     q \in SeqsUpTo(FieldTypes, MaxFields)}
  \cup {tools[i].inputSchema : i \in 1..Len(tools)}

TranslatorInit ==
  /\ InitServer
  /\ schema \in SampleSchemas
  /\ document = Undef

\* mcp-server.ts:239: zodToJsonSchema(tool.inputSchema).
Translate ==
  /\ schema # Undef
  /\ document = Undef
  /\ document' = zodToJsonSchema(schema)
  /\ UNCHANGED <<schema, sseVars, callVars>>

TranslatorNext == Translate

TranslatorSpec == TranslatorInit /\ [][TranslatorNext]_vars


(***************************************************************************)
(* Properties.                                                             *)
(***************************************************************************)
IsBatch == body.t = "array"
Members == IF IsBatch THEN body.items ELSE <<body>>
Replied == callPc = "replied"
ErrorCode(r) == Get(r.error, "code")

\* The response a member gets when handled on its own, its data-source
\* call (if any) ending as o.
ResponseTo(member, o) == TaskResponse(member, StartTask(member), o)

\* C1: a batch of N members is answered by an array of exactly N responses,
\* and the response at position i is the response to member i, whatever the
\* order in which the members' tasks settled.
BatchReplyInInputOrder ==
  (Replied /\ IsBatch) =>
    /\ reply.body.t = "array"
    /\ Len(reply.body.items) = Len(body.items)
    /\ \A i \in 1..Len(body.items) :
         reply.body.items[i] = ResponseTo(body.items[i], outcome[i])

\* A batch answered although its second member settled before its first,
\* the two responses being different.
BatchOutOfOrderWitness ==
  /\ Replied /\ IsBatch /\ Len(body.items) = 2
  /\ pm[1].kind = "execute" /\ pm[2].kind = "invalid"
  /\ reply.body.items[1] # reply.body.items[2]


\* An envelope that is structurally valid: an object with the protocol tag
\* "2.0" and a method property.
ValidEnvelope(m) ==
  /\ m.t = "object"
  /\ {"jsonrpc", "method"} \subseteq DOMAIN m.fields
  /\ m.fields.jsonrpc = JStr("2.0")
IsToolsCall(m) == ValidEnvelope(m) /\ m.fields.method = JStr("tools/call")
NameOf(m) == Get(Get(m, "params"), "name")
ArgsOf(m) ==
  IF Get(Get(m, "params"), "arguments") = Undef THEN JObj(EmptyFields)
  ELSE Get(Get(m, "params"), "arguments")
Settled(i) == i \in DOMAIN results /\ results[i] # Pending
ResultText(r) == Get(Get(r.result, "content").items[1], "text")
IsErrorFlagged(r) ==
  /\ r.result # Undef
  /\ Get(r.result, "isError") = JBool(TRUE)
  /\ Get(r.result, "content").t = "array"
  /\ Len(Get(r.result, "content").items) = 1
  /\ Get(Get(r.result, "content").items[1], "type") = JStr("text")

\* C2: a tools/call whose name is a string the registry does not declare is
\* answered with a populated result that is an error-flagged tool result
\* naming the unknown tool, never with a populated error.
UnknownToolIsToolResult ==
  \A i \in DOMAIN results :
    ( /\ Settled(i)
      /\ IsToolsCall(Members[i])
      /\ NameOf(Members[i]).t = "string"
      /\ NameOf(Members[i]).s \notin ToolNames )
    => /\ results[i].error = Undef
       /\ IsErrorFlagged(results[i])
       /\ ResultText(results[i]) = JText("Unknown tool: ", <<NameOf(Members[i]).s>>)

\* C3: when the write of the pushed event fails, the synchronous reply of
\* the call is still the dispatcher's response for the request.
PushFailureKeepsReply ==
  (Replied /\ pushState = "rejected") => reply.body = results[1]

KnownMethods ==
  {JStr("initialize"), JStr("tools/list"), JStr("tools/call"), JStr("ping"),
   JStr("notifications/initialized")}
ThrowCase(m) ==
  \/ Get(m, "method") \notin KnownMethods
  \/ /\ Get(m, "method") = JStr("tools/call")
     /\ Get(m, "params").t \in {"undefined", "null"}

\* C4: a structurally valid request whose handling throws inside the
\* dispatcher (unknown method; tools/call with params missing or null) gets
\* a response with error code -32603, no result, and the request's id.
DispatcherFaultIsInternalError ==
  \A i \in DOMAIN results :
    ( /\ Settled(i)
      /\ ValidEnvelope(Members[i])
      /\ (ThrowCase(Members[i]) \/ pm[i].kind = "throw") )
    => /\ results[i].result = Undef
       /\ results[i].error # Undef
       /\ ErrorCode(results[i]) = JNum(-32603)
       /\ results[i].id = Get(Members[i], "id")

\* An unknown method with a string id, replied.
UnknownMethodWitness ==
  /\ Replied /\ ~IsBatch /\ body # Undecodable
  /\ Get(body, "method") = JStr("no/such")
  /\ Get(body, "id") = JStr("a")
  /\ reply.body.error # Undef

\* C5: a tools/call whose name resolves and whose arguments violate the
\* tool's schema gets a successful envelope whose payload is error-flagged
\* and describes the violation; the executor is not invoked.
InvalidArgumentsIsToolError ==
  \A i \in DOMAIN results :
    ( /\ Settled(i)
      /\ IsToolsCall(Members[i])
      /\ Get(Members[i], "params").t = "object"
      /\ NameOf(Members[i]).t = "string"
      /\ NameOf(Members[i]).s \in ToolNames
      /\ ~ParseOk(ToolDef(NameOf(Members[i]).s).inputSchema, ArgsOf(Members[i])) )
    => /\ results[i].error = Undef
       /\ IsErrorFlagged(results[i])
       /\ ResultText(results[i]).s = "Invalid arguments: "
       /\ ResultText(results[i]).parts # <<>>
       /\ \A k \in DOMAIN executorLog : executorLog[k].member # i

\* get_year called with a string where the integer id is required, replied.
InvalidArgumentsWitness ==
  /\ Replied /\ ~IsBatch /\ body # Undecodable
  /\ NameOf(body) = JStr("get_year")
  /\ Get(ArgsOf(body), "id") = JStr("abc")
  /\ IsErrorFlagged(reply.body)
  /\ executorLog = <<>>

\* C6: when the executor fails (data source unreachable or non-success
\* status) the response is a successful envelope whose result is an
\* error-flagged tool result with exactly one text item holding the detail.
ExecutorFailureIsToolError ==
  \A i \in DOMAIN results :
    (Settled(i) /\ outcome[i] \in {"unreachable", "status500"})
    => /\ results[i].error = Undef
       /\ IsErrorFlagged(results[i])
       /\ ResultText(results[i]) = JText("Error: ", fetch(outcome[i]).message)

\* A call whose data source answered with a non-success status, replied.
ExecutorFailureWitness ==
  /\ Replied /\ ~IsBatch /\ body # Undecodable
  /\ outcome = <<"status500">>
  /\ reply.status = 200 /\ reply.body = results[1]

ReplyEnvelopes ==
  IF reply = NoReply THEN {}
  ELSE IF "jsonrpc" \in DOMAIN reply.body THEN {reply.body}
  ELSE {reply.body.items[i] : i \in 1..Len(reply.body.items)}
PushedEnvelopes == {pushed[k].event.data : k \in DOMAIN pushed}

\* C7: every response envelope emitted, in a reply or as a pushed event,
\* carries exactly one of result and error.
ExactlyOneOfResultAndError ==
  \A r \in ReplyEnvelopes \cup PushedEnvelopes :
    (r.result = Undef) # (r.error = Undef)

\* A call whose response was both pushed to a channel and replied.
PushedAndRepliedWitness ==
  /\ Replied /\ pushState = "resolved"
  /\ reply.body \in PushedEnvelopes

\* C8: a member is handed to the dispatcher iff it is a valid envelope; any
\* other member, single or in a batch, is answered at its position with id
\* null and error -32600 "Invalid Request".
DispatchedIffValidEnvelope ==
  (callPc # "idle" /\ body # Undecodable) =>
    \A i \in 1..Len(Members) :
      /\ i \in dispatched <=> ValidEnvelope(Members[i])
      /\ (Replied /\ ~ValidEnvelope(Members[i])) =>
           LET r == IF IsBatch THEN reply.body.items[i] ELSE reply.body
           IN  /\ r.id = JNull
               /\ r.result = Undef
               /\ ErrorCode(r) = JNum(-32600)
               /\ Get(r.error, "message") = JStr("Invalid Request")

\* A batch of an invalid member followed by a dispatched one, replied.
InvalidMemberWitness ==
  /\ Replied /\ IsBatch /\ Len(body.items) = 2
  /\ body.items[1] = JNum(5)
  /\ dispatched = {2}

\* C9: the Invalid-Request response uses the envelope's own id when the
\* input is an object with an id, and null otherwise.
InvalidRequestEchoesId ==
  (Replied /\ body # Undecodable) =>
    \A i \in 1..Len(Members) :
      ~ValidEnvelope(Members[i]) =>
        LET r == IF IsBatch THEN reply.body.items[i] ELSE reply.body
        IN  r.id = IF Has(Members[i], "id") THEN Get(Members[i], "id") ELSE JNull

\* C10: a body that cannot be decoded is answered by one error response
\* with id null and code -32700; the dispatcher is not invoked and nothing
\* is written to any channel.
ParseErrorReply ==
  (Replied /\ body = Undecodable) =>
    /\ "jsonrpc" \in DOMAIN reply.body
    /\ reply.body.id = JNull
    /\ reply.body.result = Undef
    /\ ErrorCode(reply.body) = JNum(-32700)
    /\ dispatched = {} /\ executorLog = <<>>
    /\ pushed = <<>> /\ pushState = "none"

\* An undecodable body sent with the token of a registered session, replied.
UndecodableWithSessionWitness ==
  /\ Replied /\ body = Undecodable
  /\ IsSSESession
  /\ channel[header] = <<>>


\* The reply body a member gets when it is posted alone (index.ts:189-223),
\* its data-source call (if any) ending as o.
AloneReply(member, o) ==
  IF isJSONRPCRequest(member)
  THEN LET p == processMethod(Get(member, "method"), Get(member, "params"))
       IN  handleRequest(member, IF p.kind = "execute" THEN execute(o) ELSE p)
  ELSE InvalidRequest

FailsAlone(member, o) == AloneReply(member, o).error # Undef \/ o \in {"unreachable", "status500"}

\* C11: in a batch every member's response is the one it gets when posted
\* alone; a member that is invalid, names an unknown method or whose
\* executor fails neither aborts the batch nor changes or removes the
\* response of a sibling.
BatchMembersIsolated ==
  IsBatch =>
    /\ Len(results) = Len(body.items)
    /\ \A i \in DOMAIN results :
         results[i] # Pending => results[i] = AloneReply(body.items[i], outcome[i])
    /\ (\A i \in DOMAIN results : results[i] # Pending) => callPc \in {"batch", "replied"}
    /\ Replied =>
         /\ reply.status = 200
         /\ reply.body = JArr(results)
         /\ \A i \in DOMAIN results : results[i] # Pending

\* A batch whose first member's executor failed and whose second member
\* succeeded, replied.
FailedSiblingWitness ==
  /\ Replied /\ IsBatch /\ Len(body.items) = 2
  /\ outcome = <<"status500", "ok">>
  /\ FailsAlone(body.items[1], outcome[1])
  /\ reply.body.items[2].error = Undef
  /\ Get(reply.body.items[2].result, "isError") = Undef

ResponseReady == callPc \in {"batch", "single"} /\ settled = Len(Members)

\* C12: every call, single or batch, that carries a token registered when
\* its response is ready has each response written to that session's
\* channel as a `message` event, besides being the synchronous reply.
PushOnRegisteredSession ==
  [][ (ResponseReady /\ IsSSESession /\ callPc' # callPc) =>
        \A i \in DOMAIN results :
          ValidEnvelope(Members[i]) =>
          \E k \in DOMAIN pushed' :
            /\ pushed'[k].token = header
            /\ pushed'[k].event = [event |-> "message", data |-> results[i]] ]_vars

\* The reply of a call that carries no token.
NoTokenReply(b, o) ==
  IF b = Undecodable THEN [status |-> 400, body |-> ParseError("Unexpected token")]
  ELSE IF b.t = "array"
  THEN [status |-> 200,
        body |-> JArr([i \in 1..Len(b.items) |-> AloneReply(b.items[i], o[i])])]
  ELSE IF isJSONRPCRequest(b) THEN [status |-> 200, body |-> AloneReply(b, o[1])]
  ELSE [status |-> 400, body |-> InvalidRequest]

\* C13: a call whose token is not in the session table when it is looked up
\* is answered exactly as without a token: the normal reply, nothing written
\* to any channel, the session table unchanged.
UnknownTokenIsNoSession ==
  [][ ( /\ header' # NoSession
        /\ header' \notin DOMAIN sseConnections
        /\ callPc \notin {"replied", "push"}
        /\ callPc' = "replied" )
      => /\ reply' = NoTokenReply(body', outcome')
         /\ pushed' = <<>>
         /\ channel' = channel
         /\ writer' = writer
         /\ sseConnections' = sseConnections ]_vars

\* A call carrying the token of a session that was closed, replied, while
\* another session is registered.
ClosedTokenWitness ==
  /\ Replied /\ ~IsBatch /\ body # Undecodable /\ ValidEnvelope(body)
  /\ header # NoSession /\ header \notin DOMAIN sseConnections
  /\ closes[header] = 1
  /\ DOMAIN sseConnections # {}
  /\ pushState = "none" /\ reply.status = 200


Registered(t) == t \in DOMAIN sseConnections
EntryChanged(t) ==
  \/ Registered(t) # (t \in DOMAIN sseConnections')
  \/ Registered(t) /\ sseConnections'[t] # sseConnections[t]

\* The table holds the opened tokens less the closed ones, each with its
\* own writer.
TableIsOpenedLessClosed ==
  /\ DOMAIN sseConnections = {t \in Tokens : ssePc[t] # "none" /\ closes[t] = 0}
  /\ \A t \in DOMAIN sseConnections : sseConnections[t] = t

\* C17: under every interleaving of opens, closes and calls, the entry of a
\* token is inserted only by its own open and removed only by its own
\* close, never replaced, and the session table is the one the opens and
\* closes give in sequence: the opened tokens less the closed ones, each
\* with its own writer.
SessionTableIsSequential ==
  [][ /\ TableIsOpenedLessClosed'
      /\ \A t \in Tokens :
           EntryChanged(t) =>
             \/ ssePc[t] = "none" /\ ssePc'[t] = "awaitWrite"
                  /\ ~Registered(t) /\ sseConnections'[t] = t
             \/ closes'[t] = closes[t] + 1 /\ Registered(t)
                  /\ t \notin DOMAIN sseConnections' ]_vars

\* Two sessions opened, the first closed while a call is in progress, the
\* second still registered.
InterleavedCloseWitness ==
  /\ ssePc[1] # "none" /\ ssePc[2] # "none"
  /\ closes[1] = 1 /\ closes[2] = 0
  /\ DOMAIN sseConnections = {2}
  /\ callPc \in {"batch", "single", "push"}

StableMethods == {JStr("initialize"), JStr("ping"), JStr("notifications/initialized")}
IsStable(m) == ValidEnvelope(m) /\ Get(m, "method") \in StableMethods
FixedResult(method) ==
  IF method = JStr("initialize")
  THEN JObj([protocolVersion |-> JStr("2024-11-05"),
             capabilities |-> JObj([tools |-> JObj(EmptyFields)]),
             serverInfo |-> JObj([name |-> JStr("bdl-mcp-server"),
                                  version |-> JStr("1.0.0")])])
  ELSE JObj(EmptyFields)

\* C18: initialize, ping and notifications/initialized give the same result
\* whenever and however often they are called (the fixed initialize result,
\* an empty result for the other two), and no step of a call that carries
\* one of them changes the session table or the lifecycle of a session.
StableMethodsFixedResult ==
  [][ /\ \A i \in DOMAIN results' :
           (results'[i] # Pending /\ IsStable(Members'[i]))
           => /\ results'[i].error = Undef
              /\ results'[i].result = FixedResult(Get(Members'[i], "method"))
      /\ ( /\ callVars' # callVars
           /\ \E i \in DOMAIN Members' : IsStable(Members'[i]) )
         => /\ sseConnections' = sseConnections
            /\ ssePc' = ssePc /\ closes' = closes
            /\ dropped' = dropped /\ abortPending' = abortPending ]_vars

\* initialize answered on a call that carries a registered token.
InitializeWitness ==
  /\ Replied /\ ~IsBatch /\ body # Undecodable /\ ValidEnvelope(body)
  /\ Get(body, "method") = JStr("initialize")
  /\ Registered(header)
  /\ reply.status = 200 /\ reply.body.result = FixedResult(JStr("initialize"))

\* C19: tools/list returns one entry per operation of the registry, in
\* declaration order, each with the operation's name, its description and
\* the translation of its argument schema; none missing, doubled or moved.
ToolsListMatchesRegistry ==
  \A i \in DOMAIN results :
    ( /\ Settled(i) /\ ValidEnvelope(Members[i])
      /\ Get(Members[i], "method") = JStr("tools/list") )
    => /\ results[i].error = Undef
       /\ DOMAIN results[i].result.fields = {"tools"}
       /\ LET l == Get(results[i].result, "tools")
          IN  /\ l.t = "array"
              /\ Len(l.items) = Len(tools)
              /\ \A k \in 1..Len(tools) :
                   /\ DOMAIN l.items[k].fields = {"name", "description", "inputSchema"}
                   /\ Get(l.items[k], "name") = JStr(tools[k].name)
                   /\ Get(l.items[k], "description") = JStr(tools[k].description)
                   /\ Get(l.items[k], "inputSchema") = zodToJsonSchema(tools[k].inputSchema)
              /\ \A j, k \in 1..Len(l.items) :
                   j # k => Get(l.items[j], "name") # Get(l.items[k], "name")
              /\ {Get(l.items[k], "name").s : k \in 1..Len(l.items)} = ToolNames

\* tools/list answered: first entry get_aggregates, last get_api_version.
ToolsListWitness ==
  /\ Replied /\ ~IsBatch /\ body # Undecodable /\ ValidEnvelope(body)
  /\ Get(body, "method") = JStr("tools/list")
  /\ LET l == Get(reply.body.result, "tools").items
     IN  /\ Len(l) = Len(tools)
         /\ Get(l[1], "name") = JStr("get_aggregates")
         /\ Get(l[Len(l)], "name") = JStr("get_api_version")


\* C14: once the connection under a channel is aborted or closed, at any
\* point after its token was inserted (the open handler still awaiting its
\* first write included), the token is eventually removed from the session
\* table and the writer closed.
AbortedTokenEventuallyRemoved ==
  \A t \in Tokens : (dropped[t] /\ Registered(t)) ~> (~Registered(t) /\ closes[t] > 0)

\* C15: a close for a token that is not in the session table leaves the
\* table as it is, and over all close signals of one channel the writer is
\* closed exactly once: never twice, and once when the connection ended.
WriterClosedExactlyOnce ==
  /\ [][ \A t \in Tokens :
           (~Registered(t) /\ closes'[t] # closes[t]) =>
             sseConnections' = sseConnections ]_vars
  /\ \A t \in Tokens : [](closes[t] <= 1)
  /\ \A t \in Tokens : dropped[t] ~> (closes[t] = 1)

\* C16: every open eventually returns the streaming response; its token was
\* not in the session table before the open, is registered before it is
\* disclosed by the return, and the endpoint event is the first event on
\* the channel.
OpenEventuallyReturns ==
  /\ [][ \A t \in Tokens :
           (ssePc[t] = "none" /\ ssePc'[t] # "none") =>
             /\ ~Registered(t)
             /\ t \in DOMAIN sseConnections'
             /\ ssePc'[t] = "awaitWrite"
             /\ channel'[t] = <<createSSEEndpoint>> ]_vars
  /\ \A t \in Tokens : (ssePc[t] = "awaitWrite") ~> (ssePc[t] = "streaming")


FieldType(z, k) == (CHOOSE f \in {z.shape[i] : i \in 1..Len(z.shape)} : f.key = k).type
DeclaredOptional(z) == z.kind = "ZodOptional"
RECURSIVE Unwrap(_)
Unwrap(z) == IF z.kind \in {"ZodOptional", "ZodNullable"} THEN Unwrap(z.inner[1]) ELSE z
SubDocumentKeys == {"type", "description", "enum", "items", "oneOf", "properties", "required"}

\* z a zod object, doc its translation: `required` lists exactly the fields
\* not declared optional and is absent when there is none; the sub-document
\* of a field has no key for its optionality, and a `required` of its own
\* only as the translation of a nested object, for which the same holds.
RECURSIVE RequiredMatches(_, _)
RequiredMatches(z, doc) ==
  LET req == {k \in ShapeKeys(z) : ~DeclaredOptional(FieldType(z, k))}
  IN  /\ doc.t = "object"
      /\ Get(doc, "type") = JStr("object")
      /\ DOMAIN Get(doc, "properties").fields = ShapeKeys(z)
      /\ IF req = {} THEN "required" \notin DOMAIN doc.fields
         ELSE /\ "required" \in DOMAIN doc.fields
              /\ Get(doc, "required").t = "array"
              /\ Len(Get(doc, "required").items) = Cardinality(req)
              /\ {Get(doc, "required").items[i] : i \in 1..Cardinality(req)}
                   = {JStr(k) : k \in req}
      /\ \A k \in ShapeKeys(z) :
           LET sub == Get(Get(doc, "properties"), k)
               inner == Unwrap(FieldType(z, k))
           IN  /\ DOMAIN sub.fields \subseteq SubDocumentKeys
               /\ "required" \in DOMAIN sub.fields => inner.kind = "ZodObject"
               /\ inner.kind = "ZodObject" => RequiredMatches(inner, sub)

\* C20: in every translated document, at every nesting level, a field is
\* listed in `required` iff it was not declared optional, `required` is
\* left out when no field is required, and the sub-document of a field
\* never records whether the field is optional.
RequiredIffNotOptional ==
  document # Undef => RequiredMatches(schema, document)

\* A translated object with a required field and an optional nested object
\* that has a `required` list of its own.
NestedRequiredWitness ==
  /\ document # Undef
  /\ Len(schema.shape) = 2
  /\ schema.shape[1].type = ZString
  /\ schema.shape[2].type = Optional(ZObject(NestedShape))
  /\ Get(document, "required") = JArr(<<JStr("a")>>)
  /\ Get(Get(Get(document, "properties"), "b"), "required") = JArr(<<JStr("x")>>)


ScalarKinds == {"ZodEnum", "ZodString", "ZodNumber", "ZodBoolean"}
TypeTag(z) ==
  CASE z.kind \in {"ZodEnum", "ZodString"} -> JStr("string")
    [] z.kind = "ZodNumber" ->
         IF \E i \in 1..Len(z.checks) : z.checks[i].kind = "int"
         THEN JStr("integer") ELSE JStr("number")
    [] z.kind = "ZodBoolean" -> JStr("boolean")

\* C21: the sub-document of every field that is declared with a description
\* and is an enumeration, a string, a number or a boolean, optional or not,
\* carries that description together with the type tag, and the enum list
\* for an enumeration.
FieldDescriptionKept ==
  document # Undef =>
    \A k \in ShapeKeys(schema) :
      LET f == FieldType(schema, k)
          inner == Unwrap(f)
          sub == Get(Get(document, "properties"), k)
      IN  (f.description # Undef /\ inner.kind \in ScalarKinds)
          => /\ Get(sub, "description") = f.description
             /\ Get(sub, "type") = TypeTag(inner)
             /\ inner.kind = "ZodEnum" =>
                  Get(sub, "enum") = JArr([i \in 1..Len(inner.values) |-> JStr(inner.values[i])])


IdKinds == {"string", "number", "null"}

\* C22: the response to a structurally valid request carries the request's
\* identifier, and every response envelope sent, in a reply or on a
\* channel, has an identifier that is a string, a number or null.
ResponseIdWellFormed ==
  /\ \A i \in DOMAIN results :
       (Settled(i) /\ ValidEnvelope(Members[i])) =>
         results[i].id = Get(Members[i], "id")
  /\ \A r \in ReplyEnvelopes \cup PushedEnvelopes : r.id.t \in IdKinds


\* Whether the JSON value v conforms to the published document doc: its
\* type tags, required lists, enum lists, items and oneOf.
RECURSIVE Conforms(_, _)
Conforms(doc, v) ==
  IF Has(doc, "oneOf")
  THEN Cardinality({i \in 1..Len(Get(doc, "oneOf").items) :
                      Conforms(Get(doc, "oneOf").items[i], v)}) = 1
  ELSE
    CASE Get(doc, "type") = JStr("object") ->
           /\ v.t = "object"
           /\ Has(doc, "required") =>
                \A i \in 1..Len(Get(doc, "required").items) :
                  Has(v, Get(doc, "required").items[i].s)
           /\ \A k \in DOMAIN Get(doc, "properties").fields :
                Has(v, k) => Conforms(Get(Get(doc, "properties"), k), Get(v, k))
      [] Get(doc, "type") = JStr("string") ->
           /\ v.t = "string"
           /\ Has(doc, "enum") =>
                \E i \in 1..Len(Get(doc, "enum").items) : Get(doc, "enum").items[i] = JStr(v.s)
      [] Get(doc, "type") = JStr("integer") -> v.t = "number" /\ v.n10 % 10 = 0
      [] Get(doc, "type") = JStr("number") -> v.t = "number"
      [] Get(doc, "type") = JStr("boolean") -> v.t = "boolean"
      [] Get(doc, "type") = JStr("array") ->
           v.t = "array" /\ \A i \in 1..Len(v.items) : Conforms(Get(doc, "items"), v.items[i])

ResolvedCall(m) ==
  /\ IsToolsCall(m)
  /\ Get(m, "params").t = "object"
  /\ NameOf(m).t = "string" /\ NameOf(m).s \in ToolNames
PublishedDocument(name) == zodToJsonSchema(ToolDef(name).inputSchema)

\* C23: for a tools/call on a registry tool, the arguments conform to the
\* document tools/list publishes for the tool iff validation accepts them.
DocumentAgreesWithValidation ==
  \A i \in DOMAIN pm :
    ResolvedCall(Members[i]) =>
      ( Conforms(PublishedDocument(NameOf(Members[i]).s), ArgsOf(Members[i]))
        <=> pm[i].kind = "execute" )


\* The arguments validation hands on: the caller's values for the keys the
\* schema declares, nothing else.
ValidatedArgs(z, v) ==
  JObj([k \in DOMAIN v.fields \cap ShapeKeys(z) |-> v.fields[k]])
ExecutorCallsOf(i) == {k \in DOMAIN executorLog : executorLog[k].member = i}
ResolvesAndValidates(m) ==
  /\ NameOf(m).t = "string" /\ NameOf(m).s \in ToolNames
  /\ ParseOk(ToolDef(NameOf(m).s).inputSchema, ArgsOf(m))

\* C24: for every tools/call the executor is invoked once if the name is
\* declared by the registry and the arguments validate, and not at all
\* otherwise; it receives the validated arguments (the empty object when
\* `arguments` is absent), not the raw ones; for an unknown tool or invalid
\* arguments neither executor nor data source is called.
ExecutorCalledIffValid ==
  \A i \in DOMAIN pm :
    IsToolsCall(Members[i]) =>
      LET m == Members[i]
      IN  IF ResolvesAndValidates(m)
          THEN /\ Cardinality(ExecutorCallsOf(i)) = 1
               /\ \A k \in ExecutorCallsOf(i) :
                    /\ executorLog[k].tool = NameOf(m).s
                    /\ executorLog[k].args =
                         ValidatedArgs(ToolDef(NameOf(m).s).inputSchema, ArgsOf(m))
          ELSE /\ ExecutorCallsOf(i) = {}
               /\ outcome[i] = "none"

\* get_api_version called with a key its schema does not declare: the
\* executor ran once, was given the empty object, and the call is replied.
StrippedArgsWitness ==
  /\ Replied /\ ~IsBatch /\ body # Undecodable /\ IsToolsCall(body)
  /\ NameOf(body) = JStr("get_api_version")
  /\ ArgsOf(body) = JObj([extra |-> JNum(1)])
  /\ Len(executorLog) = 1
  /\ executorLog[1].args = JObj(EmptyFields)
  /\ outcome[1] = "ok"


\* C25: a response is written to a channel only by a call that carries that
\* channel's own token while the token is registered; nothing is written to
\* another session's channel or after the token was removed; and the data
\* of the event a call wrote is the synchronous reply of that call.
PushOnlyToOwnChannel ==
  [][ /\ \A t \in Tokens :
           Len(channel'[t]) > Len(channel[t]) =>
             \/ ssePc[t] = "none" /\ channel'[t] = <<createSSEEndpoint>>
             \/ /\ header = t /\ Registered(t) /\ sseConnections[t] = t
                /\ channel'[t] =
                     Append(channel[t], [event |-> "message", data |-> results[1]])
      /\ \A k \in DOMAIN pushed' :
           pushed'[k].token = header' /\ pushed'[k].writer = header'
      /\ (callPc' = "replied" /\ pushed' # <<>>) =>
           reply'.body = pushed'[1].event.data ]_vars

\* C26: every call is eventually replied to once its data-source calls have
\* returned, also when it carries the token of a registered session whose
\* consumer has stopped reading or whose connection closes during the push.
CallEventuallyReplied ==
  (callPc \in {"batch", "single", "push"}) ~> (callPc = "replied")


====
